---- MODULE Spec2Model ----
(***************************************************************************)
(* VoiceCast ML pipeline: the data processing pipeline (DataProcessor),    *)
(* the training pipeline (ModelTrainer), the end-to-end script             *)
(* (run_complete_pipeline.py), the status tracker (PipelineStatus) and the *)
(* batch accounting of UniversalAudioProcessor.process_dataset.            *)
(*                                                                         *)
(* Progress values are exact rationals <<num, den>>: the code's floats     *)
(* 0.1 + (i / n) * 0.2 become <<n + 2i, 10n>>.  An audio buffer is its     *)
(* sample count and the transform that produced it.  A message is its      *)
(* template and the error text interpolated into it.                       *)
(***************************************************************************)
EXTENDS Integers, Sequences, FiniteSets, TLC

\* ---------------------------------------------------------------- bounds
MaxFiles == 2
MaxEpochs == 2
MaxLoss == 2
MaxBatch == 3
MaxE2EFiles == 1
MaxCalls == 3
MaxAudio == 4
MaxTarget == 5

\* ------------------------------------------------------ program constants
sample_rate == 22050
hop_length == 512
max_duration == 30
min_duration == 1
max_workers == 4

None == "None"

\* ------------------------------------------------------------- rationals
Frac(n, d) == <<n, d>>
Leq(a, b) == a[1] * b[2] <= b[1] * a[2]
Same(a, b) == a[1] * b[2] = b[1] * a[2]
Less(a, b) == a[1] * b[2] < b[1] * a[2]

\* x / y rounded to the nearest integer, as int(round(x / y)) does
RoundDiv(x, y) == (2 * x + y) \div (2 * y)

\* ---------------------------------------------------------- status store
Statuses == {"running", "completed", "failed", "cancelled", "pending"}
Terminal == {"completed", "failed", "cancelled"}

\* The status_data update_status builds from its arguments.
StatusData(status, progress, text, err) ==
  [status |-> status, progress |-> progress, text |-> text, err |-> err]

\* The metadata argument: None, or a dict given as its set of items.
NoMetadata == [given |-> FALSE, items |-> {}]
Dict(S) == [given |-> TRUE, items |-> S]
\* "metadata or {}"
OrEmpty(m) == IF m.given /\ m.items # {} THEN m ELSE Dict({})

\* The status_data dict: the arguments, the metadata and the timestamp.
StatusRecord(rec, metadata, t) ==
  [status |-> rec.status, progress |-> rec.progress, text |-> rec.text,
   err |-> rec.err, metadata |-> OrEmpty(metadata), timestamp |-> t]

\* No blob under pipeline_status/ for an id.
NoRecord == StatusRecord(StatusData("none", Frac(0, 1), "", ""), NoMetadata, 0)

\* A variant of PutStatus that never overwrites a blob that exists.
PutStatusKeepsFirst(st, id, rec, ok) ==
  IF ok /\ st[id].status = "none" THEN [st EXCEPT ![id] = rec] ELSE st

\* A variant of PutStatus that overwrites the blob although the write failed.
PutStatusDespiteFailure(st, id, rec, ok) == [st EXCEPT ![id] = rec]

\* PipelineStatus.update_status: the call is recorded, the blob is
\* overwritten when the upload succeeds, and no exception leaves the call.
LogUpdate(log, id, rec) == [log EXCEPT ![id] = Append(@, rec)]
PutStatus(st, id, rec, ok) == IF ok THEN [st EXCEPT ![id] = rec] ELSE st

\* ------------------------------------------------------------ audio files
\* AudioPreprocessor.validate_audio_duration on a buffer of n samples.
validate_audio_duration(n) ==
  /\ min_duration * sample_rate <= n
  /\ n <= max_duration * sample_rate

\* AudioPreprocessor.trim_or_pad_audio with the default target length.
TargetLength == max_duration * sample_rate
trim_or_pad_audio(n, target) ==
  IF n > target THEN target ELSE IF n < target THEN target ELSE n

\* Frames of every feature array of a buffer of n samples (centred frames).
Frames(n) == 1 + (n \div hop_length)

Audio(n, fx) == [samples |-> n, fx |-> fx]

\* A processed record (the dict process_audio_file returns).
ProcessedRecord(path, aud, augmented) ==
  [file_path |-> path, suffix |-> "", audio_data |-> aud,
   duration |-> Frac(aud.samples, sample_rate),
   frames |-> Frames(aud.samples), features_of |-> aud,
   augmented |-> augmented]

\* What a worker hands back through its future.
Returned(rec) == [kind |-> "record", rec |-> rec, error |-> ""]
ReturnedNone == [kind |-> "none", rec |-> ProcessedRecord("", Audio(0, "raw"), FALSE), error |-> ""]
Raised(e) == [kind |-> "raised", rec |-> ReturnedNone.rec, error |-> e]

\* AudioPreprocessor.process_audio_file on the content of a local file.
\* Every exception of load and extraction is caught and answered by None.
process_audio_file(path, content) ==
  IF ~content.decodable THEN ReturnedNone
  ELSE IF ~validate_audio_duration(content.samples) THEN ReturnedNone
  ELSE IF ~content.extractable THEN ReturnedNone
  ELSE Returned(ProcessedRecord(path,
                  Audio(trim_or_pad_audio(content.samples, TargetLength), "raw"),
                  FALSE))

\* The feature vector prepare_dataset concatenates for one record:
\* mel (n_mels rows), mfcc (n_mfcc rows) and three one-row descriptors.
n_mels == 80
n_mfcc == 13
VectorLength(rec) == n_mels * rec.frames + n_mfcc * rec.frames + 3 * rec.frames

\* --------------------------------------------------------- remote bucket
Content(n, decodable, extractable) ==
  [samples |-> n, decodable |-> decodable, extractable |-> extractable]

Object(dir, file, ext, content) ==
  [dir |-> dir, file |-> file, ext |-> ext, content |-> content]

\* The objects a raw-data bucket may hold, in listing (name) order.
RemoteCatalogue ==
  << Object("a", "f.ogg", ".ogg", Content(2 * sample_rate, TRUE, FALSE)),
     Object("a", "l.mp3", ".mp3", Content(40 * sample_rate, TRUE, TRUE)),
     Object("a", "readme.txt", ".txt", Content(0, FALSE, FALSE)),
     Object("a", "s.flac", ".flac", Content(sample_rate \div 2, TRUE, TRUE)),
     Object("a", "x.wav", ".wav", Content(2 * sample_rate, TRUE, TRUE)),
     Object("a", "y.wav", ".wav", Content(5 * sample_rate, TRUE, TRUE)),
     Object("b", "x.wav", ".wav", Content(0, FALSE, FALSE)) >>

Listing(S) == LET In(o) == o \in S IN SelectSeq(RemoteCatalogue, In)
Range(s) == {s[k] : k \in 1..Len(s)}
\* The buckets a run may find: every bucket of up to MaxFiles objects, and
\* the bucket holding the whole catalogue (more audio files than workers).
Buckets ==
  {Listing(S) : S \in {T \in SUBSET Range(RemoteCatalogue) : Cardinality(T) <= MaxFiles}}
  \cup {RemoteCatalogue}

audio_extensions == {".wav", ".mp3", ".flac", ".m4a", ".ogg"}
IsAudio(o) == o.ext \in audio_extensions

\* os.path.join(temp_dir, os.path.basename(file_name))
LocalPath(o) == o.file
LocalPaths == {RemoteCatalogue[k].file : k \in 1..Len(RemoteCatalogue)}
NoContent == Content(0, FALSE, FALSE)

\* ------------------------------------------------------------------ state
Ids == {"p", "p-data", "p-training"}

VARIABLES
  entry,           \* which program runs: "data", "train", "e2e", "batch"
  cfg,             \* the loaded configuration and command line
  pc,              \* position of the coordinating thread
  pid,             \* pipeline_id of the running DataProcessor / ModelTrainer
  remote,          \* listing of the raw-data bucket
  localfs,         \* /tmp/raw_audio: path -> content
  blobs,           \* artifacts uploaded to the processed-data and models buckets
  updates,         \* per pipeline_id, the update_status calls made, in order
  store,           \* per pipeline_id, the persisted status blob
  store_up,        \* whether uploads to the status bucket succeed in this run
  exc,             \* the exception propagating (None: none)
  stage,           \* the stage executing
  stagesRun,       \* stages started, in order
  raisedBy,        \* the stage whose body raised (None: none)
  audio_files,     \* local paths download_raw_data returned
  i,               \* loop index of the running stage
  futures,         \* per submitted task: state and outcome
  processed_data,  \* records collected by process_audio_files
  augmented_data,  \* records returned by augment_data
  dataset,         \* what prepare_dataset returned
  result,          \* what the entry point returned
  epoch,           \* train_model's loop variable (-1: not bound)
  best_val_loss,   \* lowest validation loss so far
  patience_counter,
  checkpoint,      \* /tmp/best_model_<id>.pt
  val_history,     \* validation loss of every epoch run
  dataset_path,    \* the dataset artifact the trainer is given
  b_files,         \* process_dataset: outcome of each audio file, in order
  b_results,       \* process_dataset: the result dict of each file processed
  stats,           \* StatsTracker counters
  b_returned,      \* process_dataset: the list it returned
  got,             \* what the last get_status call returned, and for which id
  fit,             \* the last trim_or_pad_audio call: audio, target_length, result
  writers          \* concurrent update_status calls: positions and temp files

dataVars == <<remote, localfs, audio_files, i, futures, processed_data,
              augmented_data, dataset>>
statusVars == <<updates, store>>
ctlVars == <<entry, cfg, pc, pid, exc, stage, stagesRun, raisedBy, result>>
trainVars == <<epoch, best_val_loss, patience_counter, checkpoint, val_history,
               dataset_path>>
batchVars == <<b_files, b_results, stats, b_returned, store_up>>
unitVars == <<got, fit, writers>>
vars == <<entry, cfg, pc, pid, remote, localfs, blobs, updates, store, exc, stage,
          stagesRun, raisedBy, audio_files, i, futures, processed_data,
          augmented_data, dataset, result, trainVars, batchVars, unitVars>>

\* A blob or artifact path: <<name, pipeline id>>.
NoPath == <<"", "">>

\* Validation losses: numbers, and the values no number is below.
Num(v) == [kind |-> "num", v |-> v]
Inf == [kind |-> "inf", v |-> 0]
NaN == [kind |-> "nan", v |-> 0]
\* a < b as floats compare
LossLess(a, b) ==
  /\ a.kind = "num"
  /\ \/ b.kind = "inf"
     \/ b.kind = "num" /\ a.v < b.v
Losses == {Num(v) : v \in 1..MaxLoss} \cup {NaN}

Checkpoint(e, loss) == [saved |-> TRUE, epoch |-> e, best_val_loss |-> loss]
NoCheckpoint == [saved |-> FALSE, epoch |-> -1, best_val_loss |-> Inf]

StatNames == {"total_files", "processed_files", "failed_files", "skipped_too_short",
              "skipped_too_long", "skipped_bad_transcript", "skipped_language_filter",
              "total_duration", "processed_duration"}
NoStats == [s \in StatNames |-> 0]

NoDataset ==
  [X_train |-> <<>>, X_val |-> <<>>, y_train |-> <<>>, y_val |-> <<>>,
   metadata_train |-> <<>>, metadata_val |-> <<>>,
   dataset_stats |-> [total_samples |-> 0, training_samples |-> 0,
                      validation_samples |-> 0, feature_dim |-> 0]]

Config(aug, epochs, patience, skip, existing) ==
  [augmentation_enabled |-> aug, epochs |-> epochs, patience |-> patience,
   skip_data_processing |-> skip, existing_dataset_path |-> existing]

\* update_status(id, ...) as a step of the caller: it never raises, so the
\* caller goes on whether or not the blob was written.
\* timestamp_now(): the clock reads later at every call.
timestamp_now ==
  1 + Len(updates["p"]) + Len(updates["p-data"]) + Len(updates["p-training"])
UpdateStatusWith(id, rec, metadata) ==
  LET status_data == StatusRecord(rec, metadata, timestamp_now)
  IN /\ updates' = LogUpdate(updates, id, status_data)
     /\ store' = PutStatus(store, id, status_data, store_up)
UpdateStatus(id, rec) == UpdateStatusWith(id, rec, NoMetadata)

\* PipelineStatus.get_status: the blob's content, or None (NoRecord) when
\* the download raises because there is no blob or no reachable bucket.
get_status(st, id, ok) == IF ok THEN st[id] ELSE NoRecord
NoGot == [id |-> None, status_data |-> NoRecord, at |-> 0]
NoFit == [audio |-> <<>>, target_length |-> [given |-> TRUE, value |-> 0],
          result |-> [samples |-> <<>>, zeros |-> 0]]

\* Two pipelines running at the same time, each with its own pipeline_id,
\* and the temp file update_status writes before the upload.
Writers == {"A", "B"}
WriterId(w) == IF w = "A" THEN "p" ELSE "p-data"
\* A variant of StatusFile with one temp file for every pipeline.
SharedStatusFile(id) == <<"/tmp/status", "">>
StatusFile(id) == <<"/tmp/status", id>>
NoWriters == [at |-> [w \in Writers |-> "idle"],
              files |-> [f \in {StatusFile(id) : id \in Ids} |-> NoRecord]]

\* The stages of the two pipelines, in the order the orchestrators run them.
DataStages == {"download", "extract", "augment", "assemble", "save"}
TrainStages == {"load", "train", "save_model", "register"}

\* A variant of ExceptClause in which a failure of prepare_dataset is
\* swallowed and the run goes on to save_processed_data.
ExceptClauseSwallowsAssemble(st) ==
  IF st = "assemble" THEN "save"
  ELSE IF st \in DataStages THEN "stage_except"
  ELSE IF st = "train" THEN "train_except"
  ELSE "train_orch_except"

\* Where control passes when the body of stage st raises: the stage
\* methods of DataProcessor and train_model have an except clause of their
\* own, the other methods of ModelTrainer only log and re-raise.
ExceptClause(st) ==
  IF st \in DataStages THEN "stage_except"
  ELSE IF st = "train" THEN "train_except"
  ELSE "train_orch_except"

\* The body of stage st raises e.
Raise(st, e) ==
  /\ exc' = e
  /\ raisedBy' = st
  /\ pc' = ExceptClause(st)

InitCommon ==
  /\ store_up \in BOOLEAN
  /\ writers = NoWriters
  /\ localfs = [p \in LocalPaths |-> NoContent]
  /\ updates = [id \in Ids |-> <<>>]
  /\ store = [id \in Ids |-> NoRecord]
  /\ exc = None
  /\ stage = None
  /\ stagesRun = <<>>
  /\ raisedBy = None
  /\ audio_files = <<>>
  /\ i = 0
  /\ futures = <<>>
  /\ processed_data = <<>>
  /\ augmented_data = <<>>
  /\ dataset = NoDataset
  /\ result = NoPath
  /\ epoch = -1
  /\ best_val_loss = Inf
  /\ patience_counter = 0
  /\ checkpoint = NoCheckpoint
  /\ val_history = <<>>
  /\ got = NoGot
  /\ fit = NoFit

InitNoBatch ==
  /\ b_files = <<>>
  /\ b_results = <<>>
  /\ stats = NoStats
  /\ b_returned = <<>>

InitData ==
  /\ entry = "data"
  /\ cfg \in {Config(aug, 1, 1, FALSE, NoPath) : aug \in BOOLEAN}
  /\ pc = "download"
  /\ pid = "p"
  /\ remote \in Buckets
  /\ blobs = {}
  /\ InitCommon
  /\ dataset_path = NoPath
  /\ InitNoBatch

\* --------------------------------- DataProcessor.download_raw_data
DownloadBegin ==
  /\ pc = "download"
  /\ stage' = "download"
  /\ stagesRun' = Append(stagesRun, "download")
  /\ UpdateStatus(pid, StatusData("running", Frac(1, 10), "Downloading raw data", ""))
  /\ \/ /\ Raise("download", "ListError")
        /\ UNCHANGED <<audio_files, i>>
     \/ /\ audio_files' = <<>>
        /\ i' = 0
        /\ pc' = "download_loop"
        /\ UNCHANGED <<exc, raisedBy>>
  /\ UNCHANGED <<trainVars, batchVars, unitVars, entry, cfg, pid, remote, localfs, blobs, futures,
                 processed_data, augmented_data, dataset, result>>

\* The listing filtered for audio extensions.
AudioObjects == SelectSeq(remote, IsAudio)

\* One iteration of the download loop (i is enumerate's index).
DownloadProgress(k, n) == Frac(n + 2 * k, 10 * n)
DownloadStep ==
  /\ pc = "download_loop"
  /\ i < Len(AudioObjects)
  /\ LET o == AudioObjects[i + 1]
         n == Len(AudioObjects)
     IN \/ /\ Raise("download", "DownloadError")
           /\ UNCHANGED <<localfs, audio_files, i, updates, store>>
        \/ /\ localfs' = [localfs EXCEPT ![LocalPath(o)] = o.content]
           /\ audio_files' = Append(audio_files, LocalPath(o))
           /\ UpdateStatus(pid, StatusData("running", DownloadProgress(i, n),
                                           "Downloaded files", ""))
           /\ i' = i + 1
           /\ UNCHANGED <<exc, raisedBy, pc>>
  /\ UNCHANGED <<trainVars, batchVars, unitVars, entry, cfg, pid, remote, blobs, stage, stagesRun, futures,
                 processed_data, augmented_data, dataset, result>>

DownloadReturn ==
  /\ pc = "download_loop"
  /\ i = Len(AudioObjects)
  /\ pc' = "extract"
  /\ UNCHANGED <<trainVars, batchVars, unitVars, entry, cfg, pid, remote, localfs, blobs, updates, store, exc,
                 stage, stagesRun, raisedBy, audio_files, i, futures,
                 processed_data, augmented_data, dataset, result>>

\* --------------------------------- DataProcessor.process_audio_files
Task(state, out) == [state |-> state, out |-> out]
Running == {k \in 1..Len(futures) : futures[k].state = "running"}
Queued == {k \in 1..Len(futures) : futures[k].state = "queued"}

ExtractBegin ==
  /\ pc = "extract"
  /\ stage' = "extract"
  /\ stagesRun' = Append(stagesRun, "extract")
  /\ UpdateStatus(pid, StatusData("running", Frac(3, 10), "Processing audio files", ""))
  /\ \/ /\ Raise("extract", "SubmitError")
        /\ UNCHANGED <<futures, i, processed_data>>
     \/ /\ futures' = [k \in 1..Len(audio_files) |-> Task("queued", ReturnedNone)]
        /\ processed_data' = <<>>
        /\ i' = 0
        /\ pc' = "collect"
        /\ UNCHANGED <<exc, raisedBy>>
  /\ UNCHANGED <<trainVars, batchVars, unitVars, entry, cfg, pid, remote, localfs, blobs, audio_files,
                 augmented_data, dataset, result>>

\* A variant of IdleThread for a pool that starts a thread for every task.
ThreadPerTask(running) == TRUE

\* ThreadPoolExecutor(max_workers=4): a thread is free to take a task.
IdleThread(running) == Cardinality(running) < max_workers

\* A pool thread takes the oldest queued task; the pool has max_workers threads.
WorkerStart ==
  /\ pc = "collect"
  /\ Queued # {}
  /\ IdleThread(Running)
  /\ LET k == CHOOSE q \in Queued : \A r \in Queued : q <= r
     IN futures' = [futures EXCEPT ![k].state = "running"]
  /\ UNCHANGED <<trainVars, batchVars, unitVars, entry, cfg, pc, pid, remote, localfs, blobs, updates, store, exc,
                 stage, stagesRun, raisedBy, audio_files, i, processed_data,
                 augmented_data, dataset, result>>

\* A pool thread finishes process_audio_file on its task's path.
WorkerFinish ==
  /\ pc = "collect"
  /\ \E k \in Running :
       futures' = [futures EXCEPT
                     ![k] = Task("done", process_audio_file(audio_files[k],
                                                           localfs[audio_files[k]]))]
  /\ UNCHANGED <<trainVars, batchVars, unitVars, entry, cfg, pc, pid, remote, localfs, blobs, updates, store, exc,
                 stage, stagesRun, raisedBy, audio_files, i, processed_data,
                 augmented_data, dataset, result>>

\* A variant of CollectResult in which the loop keeps nothing after the
\* first record.
CollectFirstOnly(processed, out) ==
  IF out.kind = "record" /\ processed = <<>>
    THEN Append(processed, out.rec) ELSE processed

\* A variant of CollectResult that keeps only the record completed last.
CollectNewestOnly(processed, out) ==
  IF out.kind = "record" THEN <<out.rec>> ELSE processed

\* "if result is not None: processed_data.append(result)"
CollectResult(processed, out) ==
  IF out.kind = "record" THEN Append(processed, out.rec) ELSE processed

\* One iteration of the as_completed loop (i is enumerate's index).
ExtractProgress(k, n) == Frac(3 * n + 4 * k, 10 * n)
Collect ==
  /\ pc = "collect"
  /\ \E k \in 1..Len(futures) :
       /\ futures[k].state = "done"
       /\ futures' = [futures EXCEPT ![k].state = "collected"]
       /\ IF futures[k].out.kind = "raised"
            THEN UNCHANGED <<processed_data, updates, store>>
            ELSE /\ processed_data' = CollectResult(processed_data, futures[k].out)
                 /\ UpdateStatus(pid, StatusData("running",
                                      ExtractProgress(i, Len(audio_files)),
                                      "Processed files", ""))
  /\ i' = i + 1
  /\ UNCHANGED <<trainVars, batchVars, unitVars, entry, cfg, pc, pid, remote, localfs, blobs, exc, stage,
                 stagesRun, raisedBy, audio_files, augmented_data, dataset, result>>

\* The as_completed loop is exhausted and the executor is shut down.
ExtractReturn ==
  /\ pc = "collect"
  /\ \A k \in 1..Len(futures) : futures[k].state = "collected"
  /\ pc' = "augment"
  /\ UNCHANGED <<trainVars, batchVars, unitVars, entry, cfg, pid, remote, localfs, blobs, updates, store, exc,
                 stage, stagesRun, raisedBy, audio_files, i, futures,
                 processed_data, augmented_data, dataset, result>>

\* --------------------------------- DataAugmentation
\* add_noise: same shape as its input.
add_noise(aud) == Audio(aud.samples, "noise")
\* time_stretch at rate num/den: round(len / rate) samples, or the input
\* unchanged when the transform fails.
time_stretch(aud, num, den, ok) ==
  IF ok THEN Audio(RoundDiv(aud.samples * den, num), "stretch") ELSE aud
\* pitch_shift: the input's length, or the input unchanged on failure.
pitch_shift(aud, ok) == IF ok THEN Audio(aud.samples, "pitch") ELSE aud

AugSuffix(j) == CASE j = 0 -> "_aug_0" [] j = 1 -> "_aug_1" [] OTHER -> "_aug_2"

\* A variant of Variant that keeps the features of the original record.
VariantStaleFeatures(data, j, aug_audio) ==
  [data EXCEPT !.audio_data = aug_audio,
               !.suffix = AugSuffix(j),
               !.augmented = TRUE]

\* aug_data = data.copy() with audio, path, flag and features replaced.
Variant(data, j, aug_audio) ==
  [data EXCEPT !.audio_data = aug_audio,
               !.suffix = AugSuffix(j),
               !.augmented = TRUE,
               !.frames = Frames(aug_audio.samples),
               !.features_of = aug_audio]

\* What one iteration of augment_data's loop appends for one record.
AugmentOne(data, okStretch, okPitch) ==
  << data,
     Variant(data, 0, add_noise(data.audio_data)),
     Variant(data, 1, time_stretch(data.audio_data, 11, 10, okStretch)),
     Variant(data, 2, pitch_shift(data.audio_data, okPitch)) >>

\* --------------------------------- DataProcessor.augment_data
\* Variants of AugmentationEnabled that ignore the configuration.
AugmentationAlwaysEnabled(c) == TRUE
AugmentationNeverEnabled(c) == FALSE

\* config['data_processing']['augmentation'].get('enabled', True)
AugmentationEnabled(c) == c.augmentation_enabled

AugmentBegin ==
  /\ pc = "augment"
  /\ stage' = "augment"
  /\ stagesRun' = Append(stagesRun, "augment")
  /\ IF ~AugmentationEnabled(cfg)
       THEN /\ augmented_data' = processed_data
            /\ pc' = "assemble"
            /\ UNCHANGED <<updates, store, i>>
       ELSE /\ UpdateStatus(pid, StatusData("running", Frac(7, 10),
                                            "Applying data augmentation", ""))
            /\ augmented_data' = <<>>
            /\ i' = 0
            /\ pc' = "augment_loop"
  /\ UNCHANGED <<trainVars, batchVars, unitVars, entry, cfg, pid, remote, localfs, blobs, exc, raisedBy,
                 audio_files, futures, processed_data, dataset, result>>

AugmentProgress(k, n) == Frac(14 * n + 3 * k, 20 * n)
AugmentStep ==
  /\ pc = "augment_loop"
  /\ i < Len(processed_data)
  /\ \/ /\ Raise("augment", "FeatureError")
        /\ UNCHANGED <<augmented_data, i, updates, store>>
     \/ /\ \E okStretch \in BOOLEAN, okPitch \in BOOLEAN :
             augmented_data' = augmented_data \o
                 AugmentOne(processed_data[i + 1], okStretch, okPitch)
        /\ UpdateStatus(pid, StatusData("running",
                             AugmentProgress(i, Len(processed_data)),
                             "Augmented files", ""))
        /\ i' = i + 1
        /\ UNCHANGED <<exc, raisedBy, pc>>
  /\ UNCHANGED <<trainVars, batchVars, unitVars, entry, cfg, pid, remote, localfs, blobs, stage, stagesRun,
                 audio_files, futures, processed_data, dataset, result>>

AugmentReturn ==
  /\ pc = "augment_loop"
  /\ i = Len(processed_data)
  /\ pc' = "assemble"
  /\ UNCHANGED <<trainVars, batchVars, unitVars, entry, cfg, pid, remote, localfs, blobs, updates, store, exc,
                 stage, stagesRun, raisedBy, audio_files, i, futures,
                 processed_data, augmented_data, dataset, result>>

\* --------------------------------- DataProcessor.prepare_dataset
\* training.validation_split of the configuration, as a fraction.
validation_split == Frac(1, 5)
CeilDiv(x, y) == (x + y - 1) \div y
\* train_test_split: ceil(test_size * n) validation rows, the rest training.
NTest(n) == CeilDiv(n * validation_split[1], validation_split[2])
NTrain(n) == n - NTest(n)

\* The error prepare_dataset's body raises on these records (None: none):
\* rows of unequal length cannot be stacked and scaled, an empty set cannot
\* be scaled, and the stratified split needs a non-empty training set and
\* two members of the single label class.
PrepareError(recs) ==
  LET n == Len(recs)
      lens == {VectorLength(recs[k]) : k \in 1..n}
  IN IF Cardinality(lens) > 1 THEN "ValueError: inhomogeneous shape"
     ELSE IF n = 0 THEN "ValueError: empty array"
     ELSE IF NTrain(n) = 0 THEN "ValueError: empty train set"
     ELSE IF n < 2 THEN "ValueError: stratify"
     ELSE None

\* The metadata entry prepare_dataset keeps for one record.
MetadataOf(rec) ==
  [file_path |-> rec.file_path, suffix |-> rec.suffix,
   duration |-> rec.duration, augmented |-> rec.augmented]

\* _extract_label_from_filename
LabelOf(rec) == "default_label"

\* The rows of recs at the indices in S, in increasing order.
Rows(recs, S) == LET In(k) == k \in S IN SelectSeq([k \in 1..Len(recs) |-> k], In)

\* A variant of DatasetOf whose validation rows are also kept as training rows.
DatasetWithLeak(recs, val) ==
  LET all == Rows(recs, 1..Len(recs))
      held == Rows(recs, val)
  IN [X_train |-> all, X_val |-> held,
      y_train |-> [j \in 1..Len(all) |-> LabelOf(recs[all[j]])],
      y_val |-> [j \in 1..Len(held) |-> LabelOf(recs[held[j]])],
      metadata_train |-> [j \in 1..Len(all) |-> MetadataOf(recs[all[j]])],
      metadata_val |-> [j \in 1..Len(held) |-> MetadataOf(recs[held[j]])],
      dataset_stats |-> [total_samples |-> Len(recs),
                         training_samples |-> Len(all),
                         validation_samples |-> Len(held),
                         feature_dim |-> VectorLength(recs[1])]]

\* The dataset dict when train_test_split holds out the rows val: a row of
\* X is named by the index of the record it was computed from, and the
\* same rows are taken from features, labels and metadata.
DatasetOf(recs, val) ==
  LET kept == Rows(recs, (1..Len(recs)) \ val)
      held == Rows(recs, val)
  IN [X_train |-> kept, X_val |-> held,
      y_train |-> [j \in 1..Len(kept) |-> LabelOf(recs[kept[j]])],
      y_val |-> [j \in 1..Len(held) |-> LabelOf(recs[held[j]])],
      metadata_train |-> [j \in 1..Len(kept) |-> MetadataOf(recs[kept[j]])],
      metadata_val |-> [j \in 1..Len(held) |-> MetadataOf(recs[held[j]])],
      dataset_stats |-> [total_samples |-> Len(recs),
                         training_samples |-> Len(kept),
                         validation_samples |-> Len(held),
                         feature_dim |-> VectorLength(recs[1])]]

\* The sets of rows a shuffled split of n rows may hold out.
HeldOut(n) == {S \in SUBSET (1..n) : Cardinality(S) = NTest(n)}

PrepareDataset ==
  /\ pc = "assemble"
  /\ stage' = "assemble"
  /\ stagesRun' = Append(stagesRun, "assemble")
  /\ UpdateStatus(pid, StatusData("running", Frac(85, 100), "Preparing dataset", ""))
  /\ IF PrepareError(augmented_data) # None
       THEN /\ Raise("assemble", PrepareError(augmented_data))
            /\ UNCHANGED dataset
       ELSE /\ \E val \in HeldOut(Len(augmented_data)) :
                 dataset' = DatasetOf(augmented_data, val)
            /\ pc' = "save"
            /\ UNCHANGED <<exc, raisedBy>>
  /\ UNCHANGED <<trainVars, batchVars, unitVars, entry, cfg, pid, remote, localfs, blobs, audio_files, i,
                 futures, processed_data, augmented_data, result>>

\* --------------------------------- DataProcessor.save_processed_data
DatasetBlob(id) == <<"datasets/processed_dataset", id>>
MetadataBlob(id) == <<"datasets/metadata", id>>

SaveProcessedData ==
  /\ pc = "save"
  /\ stage' = "save"
  /\ stagesRun' = Append(stagesRun, "save")
  /\ UpdateStatus(pid, StatusData("running", Frac(95, 100), "Saving processed data", ""))
  /\ \/ /\ Raise("save", "UploadError")
        /\ blobs' \in {blobs, blobs \cup {DatasetBlob(pid)}}
     \/ /\ blobs' = blobs \cup {DatasetBlob(pid), MetadataBlob(pid)}
        /\ pc' = "complete"
        /\ UNCHANGED <<exc, raisedBy>>
  /\ UNCHANGED <<trainVars, batchVars, unitVars, entry, cfg, pid, remote, localfs, audio_files, i, futures,
                 processed_data, augmented_data, dataset, result>>

\* --------------------------------- DataProcessor.run_complete_pipeline
\* The final update and the return of the dataset path.
DataComplete ==
  /\ pc = "complete"
  /\ UpdateStatusWith(pid, StatusData("completed", Frac(1, 1), "Data processing complete", ""),
                      Dict({<<"dataset_path", DatasetBlob(pid)>>, <<"dataset_stats", dataset.dataset_stats>>}))
  /\ result' = DatasetBlob(pid)
  /\ pc' = IF entry = "data" THEN "done" ELSE "e2e_after_data"
  /\ UNCHANGED <<trainVars, batchVars, unitVars, entry, cfg, pid, remote, localfs, blobs, exc, stage, stagesRun,
                 raisedBy, audio_files, i, futures, processed_data,
                 augmented_data, dataset>>

\* Progress and message of each stage method's own except clause.
StageFailure(st, e) ==
  CASE st = "download" -> StatusData("failed", Frac(1, 10), "Failed to download raw data", e)
    [] st = "extract" -> StatusData("failed", Frac(3, 10), "Failed to process audio files", e)
    [] st = "augment" -> StatusData("failed", Frac(7, 10), "Failed to augment data", e)
    [] st = "assemble" -> StatusData("failed", Frac(85, 100), "Failed to prepare dataset", e)
    [] OTHER -> StatusData("failed", Frac(95, 100), "Failed to save processed data", e)

\* The except clause of a stage method: a failed update, then "raise".
StageExcept ==
  /\ pc = "stage_except"
  /\ UpdateStatus(pid, StageFailure(stage, exc))
  /\ pc' = "orch_except"
  /\ UNCHANGED <<trainVars, batchVars, unitVars, entry, cfg, pid, remote, localfs, blobs, exc, stage, stagesRun,
                 raisedBy, audio_files, i, futures, processed_data,
                 augmented_data, dataset, result>>

\* A variant of PipelineFailed whose message leaves out the error text.
PipelineFailedWithoutError(e) == StatusData("failed", Frac(0, 1), "Pipeline failed", "")

\* The except clause of run_complete_pipeline: a failed update, then "raise".
PipelineFailed(e) == StatusData("failed", Frac(0, 1), "Pipeline failed", e)
DataOrchExcept ==
  /\ pc = "orch_except"
  /\ UpdateStatus(pid, PipelineFailed(exc))
  /\ pc' = IF entry = "data" THEN "done" ELSE "e2e_except"
  /\ UNCHANGED <<trainVars, batchVars, unitVars, entry, cfg, pid, remote, localfs, blobs, exc, stage, stagesRun,
                 raisedBy, audio_files, i, futures, processed_data,
                 augmented_data, dataset, result>>

DataNext ==
  \/ DownloadBegin \/ DownloadStep \/ DownloadReturn
  \/ ExtractBegin \/ WorkerStart \/ WorkerFinish \/ Collect \/ ExtractReturn
  \/ AugmentBegin \/ AugmentStep \/ AugmentReturn
  \/ PrepareDataset \/ SaveProcessedData \/ DataComplete
  \/ StageExcept \/ DataOrchExcept

SpecData == InitData /\ [][DataNext]_vars

\* --------------------------------- ModelTrainer.load_dataset
ModelBlob(id) == <<"models/model", id>>
HistoryBlob(id) == <<"models/history", id>>
InfoBlob(id) == <<"models/info", id>>
VertexModel(id) == <<"vertex/voicecast-ml-model", id>>

\* dataset_path is the data pipeline's result, or the path given on the
\* command line.
LoadDataset ==
  /\ pc = "load"
  /\ stage' = "load"
  /\ stagesRun' = Append(stagesRun, "load")
  /\ \/ /\ Raise("load", "DownloadError")
     \/ /\ dataset_path \in blobs
        /\ pc' = "train"
        /\ UNCHANGED <<exc, raisedBy>>
  /\ UNCHANGED <<trainVars, batchVars, unitVars, entry, cfg, pid, remote, localfs, blobs,
                 updates, store, audio_files, i, futures, processed_data,
                 augmented_data, dataset, result>>

\* --------------------------------- ModelTrainer.train_model
\* Loaders, model, optimizer and criterion are created, then the loop starts.
TrainBegin ==
  /\ pc = "train"
  /\ stage' = "train"
  /\ stagesRun' = Append(stagesRun, "train")
  /\ \/ /\ Raise("train", "ModelError")
        /\ UNCHANGED <<i, best_val_loss, patience_counter, val_history>>
     \/ /\ i' = 0
        /\ best_val_loss' = Inf
        /\ patience_counter' = 0
        /\ val_history' = <<>>
        /\ pc' = "epoch_loop"
        /\ UNCHANGED <<exc, raisedBy>>
  /\ UNCHANGED <<batchVars, unitVars, entry, cfg, pid, remote, localfs, blobs, updates,
                 store, audio_files, futures, processed_data, augmented_data,
                 dataset, result, epoch, checkpoint, dataset_path>>

\* A variant of EpochProgress that counts one epoch too many.
EpochProgressOneAhead(e, n) == Frac(e + 2, n)

\* train_epoch's status update after epoch e of n.
EpochProgress(e, n) == Frac(e + 1, n)

\* A variant of Improved that also takes a loss equal to the best one.
ImprovedOrEqual(v) == LossLess(v, best_val_loss) \/ (v.kind = "num" /\ v = best_val_loss)

\* The early-stopping step after an epoch with validation loss v.
Improved(v) == LossLess(v, best_val_loss)
\* A variant of NextPatience that never resets the counter.
NextPatienceNoReset(v) == patience_counter + 1
NextPatience(v) == IF Improved(v) THEN 0 ELSE patience_counter + 1

\* One pass through the loop body: train_epoch (which updates the status),
\* validate_epoch, checkpointing and the early-stopping test.
TrainEpoch ==
  /\ pc = "epoch_loop"
  /\ i < cfg.epochs
  /\ epoch' = i
  /\ \/ /\ Raise("train", "TrainError")
        /\ UNCHANGED <<updates, store, i, best_val_loss, patience_counter,
                       checkpoint, val_history>>
     \/ /\ UpdateStatus(pid, StatusData("running", EpochProgress(i, cfg.epochs),
                                        "Training epoch", ""))
        /\ \/ /\ Raise("train", "ValidateError")
              /\ UNCHANGED <<i, best_val_loss, patience_counter, checkpoint,
                             val_history>>
           \/ \E v \in Losses :
                /\ val_history' = Append(val_history, v)
                /\ best_val_loss' = IF Improved(v) THEN v ELSE best_val_loss
                /\ patience_counter' = NextPatience(v)
                /\ checkpoint' = IF Improved(v) THEN Checkpoint(i, v) ELSE checkpoint
                /\ IF NextPatience(v) >= cfg.patience
                     THEN pc' = "load_best" /\ UNCHANGED i
                     ELSE pc' = "epoch_loop" /\ i' = i + 1
                /\ UNCHANGED <<exc, raisedBy>>
  /\ UNCHANGED <<batchVars, unitVars, entry, cfg, pid, remote, localfs, blobs, stage,
                 stagesRun, audio_files, futures, processed_data,
                 augmented_data, dataset, result, dataset_path>>

\* range(epochs) is exhausted.
TrainLoopEnd ==
  /\ pc = "epoch_loop"
  /\ i >= cfg.epochs
  /\ pc' = "load_best"
  /\ UNCHANGED <<trainVars, batchVars, unitVars, entry, cfg, pid, remote, localfs, blobs,
                 updates, store, exc, stage, stagesRun, raisedBy, audio_files, i,
                 futures, processed_data, augmented_data, dataset, result>>

\* torch.load of the best checkpoint, the final evaluation, the return.
LoadBest ==
  /\ pc = "load_best"
  /\ IF ~checkpoint.saved THEN Raise("train", "FileNotFoundError")
     ELSE IF epoch = -1 THEN Raise("train", "UnboundLocalError")
     ELSE \/ Raise("train", "ValidateError")
          \/ pc' = "save_model" /\ UNCHANGED <<exc, raisedBy>>
  /\ UNCHANGED <<trainVars, batchVars, unitVars, entry, cfg, pid, remote, localfs, blobs,
                 updates, store, stage, stagesRun, audio_files, i, futures,
                 processed_data, augmented_data, dataset, result>>

\* train_model's except clause: a failed update, then "raise".
TrainingFailed(e) == StatusData("failed", Frac(0, 1), "Training failed", e)
TrainExcept ==
  /\ pc = "train_except"
  /\ UpdateStatus(pid, TrainingFailed(exc))
  /\ pc' = "train_orch_except"
  /\ UNCHANGED <<trainVars, batchVars, unitVars, entry, cfg, pid, remote, localfs, blobs,
                 exc, stage, stagesRun, raisedBy, audio_files, i, futures,
                 processed_data, augmented_data, dataset, result>>

\* --------------------------------- ModelTrainer.save_model
\* Three uploads in order; the first that fails raises.
SaveModel ==
  /\ pc = "save_model"
  /\ stage' = "save_model"
  /\ stagesRun' = Append(stagesRun, "save_model")
  /\ \/ /\ Raise("save_model", "UploadError")
        /\ blobs' \in {blobs, blobs \cup {ModelBlob(pid)},
                       blobs \cup {ModelBlob(pid), HistoryBlob(pid)}}
     \/ /\ blobs' = blobs \cup {ModelBlob(pid), HistoryBlob(pid), InfoBlob(pid)}
        /\ pc' = "register"
        /\ UNCHANGED <<exc, raisedBy>>
  /\ UNCHANGED <<trainVars, batchVars, unitVars, entry, cfg, pid, remote, localfs, updates,
                 store, audio_files, i, futures, processed_data, augmented_data,
                 dataset, result>>

\* --------------------------------- ModelTrainer.upload_to_vertex_ai
UploadToVertexAI ==
  /\ pc = "register"
  /\ stage' = "register"
  /\ stagesRun' = Append(stagesRun, "register")
  /\ \/ /\ Raise("register", "RegistryError")
        /\ UNCHANGED blobs
     \/ /\ blobs' = blobs \cup {VertexModel(pid)}
        /\ pc' = "train_complete"
        /\ UNCHANGED <<exc, raisedBy>>
  /\ UNCHANGED <<trainVars, batchVars, unitVars, entry, cfg, pid, remote, localfs, updates,
                 store, audio_files, i, futures, processed_data, augmented_data,
                 dataset, result>>

\* --------------------------------- ModelTrainer.run_training_pipeline
TrainComplete ==
  /\ pc = "train_complete"
  /\ UpdateStatusWith(pid, StatusData("completed", Frac(1, 1),
                                      "Training completed successfully", ""),
                      Dict({<<"model_gcs_path", ModelBlob(pid)>>,
                            <<"vertex_model_name", VertexModel(pid)>>}))
  /\ result' = ModelBlob(pid)
  /\ pc' = IF entry = "train" THEN "done" ELSE "e2e_after_training"
  /\ UNCHANGED <<trainVars, batchVars, unitVars, entry, cfg, pid, remote, localfs, blobs,
                 exc, stage, stagesRun, raisedBy, audio_files, i, futures,
                 processed_data, augmented_data, dataset>>

\* The except clause of run_training_pipeline: a failed update, then "raise".
TrainOrchExcept ==
  /\ pc = "train_orch_except"
  /\ UpdateStatus(pid, TrainingFailed(exc))
  /\ pc' = IF entry = "train" THEN "done" ELSE "e2e_except"
  /\ UNCHANGED <<trainVars, batchVars, unitVars, entry, cfg, pid, remote, localfs, blobs,
                 exc, stage, stagesRun, raisedBy, audio_files, i, futures,
                 processed_data, augmented_data, dataset, result>>

TrainNext ==
  \/ LoadDataset \/ TrainBegin \/ TrainEpoch \/ TrainLoopEnd \/ LoadBest
  \/ TrainExcept \/ SaveModel \/ UploadToVertexAI \/ TrainComplete
  \/ TrainOrchExcept

\* An artifact left by an earlier run, named on the command line.
OldDataset == DatasetBlob("old")

TrainConfigs ==
  {Config(TRUE, e, p, FALSE, NoPath) : e \in 0..MaxEpochs, p \in 1..MaxEpochs}

InitTrain ==
  /\ entry = "train"
  /\ cfg \in TrainConfigs
  /\ pc = "load"
  /\ pid = "p"
  /\ remote = <<>>
  /\ blobs \in {{}, {OldDataset}}
  /\ InitCommon
  /\ dataset_path = OldDataset
  /\ InitNoBatch

SpecTrain == InitTrain /\ [][TrainNext]_vars

\* train_model runs in one thread that executes its next statement whenever
\* there is one.
SpecTrainLive == SpecTrain /\ WF_vars(TrainNext)

\* A variant of DataId in which the data pipeline runs under the parent's id.
ParentAsDataId == "p"

\* --------------------------------- run_complete_pipeline.py
Parent == "p"
DataId == "p-data"
TrainingId == "p-training"

\* The initial update, then the branch on --skip-data-processing.
E2EStart ==
  /\ pc = "e2e_start"
  /\ UpdateStatus(Parent, StatusData("running", Frac(0, 1), "Complete pipeline started", ""))
  /\ IF cfg.skip_data_processing
       THEN IF cfg.existing_dataset_path = NoPath
              THEN /\ exc' = "ValueError"
                   /\ pc' = "e2e_except"
                   /\ UNCHANGED <<pid, dataset_path>>
              ELSE /\ dataset_path' = cfg.existing_dataset_path
                   /\ pc' = "e2e_skipped"
                   /\ UNCHANGED <<pid, exc>>
       ELSE /\ pid' = DataId
            /\ pc' = "download"
            /\ UNCHANGED <<exc, dataset_path>>
  /\ UNCHANGED <<batchVars, unitVars, entry, cfg, remote, localfs, blobs, stage, stagesRun,
                 raisedBy, audio_files, i, futures, processed_data,
                 augmented_data, dataset, result, epoch, best_val_loss,
                 patience_counter, checkpoint, val_history>>

\* The 0.5 update of either branch, then run_model_training.
E2EHalf(text) ==
  /\ UpdateStatus(Parent, StatusData("running", Frac(1, 2), text, ""))
  /\ pid' = TrainingId
  /\ pc' = "load"

E2ESkipped ==
  /\ pc = "e2e_skipped"
  /\ E2EHalf("Skipped data processing, using existing dataset")
  /\ UNCHANGED <<trainVars, batchVars, unitVars, entry, cfg, remote, localfs, blobs, exc,
                 stage, stagesRun, raisedBy, audio_files, i, futures,
                 processed_data, augmented_data, dataset, result>>

\* run_data_processing returned: its value becomes dataset_path, and the
\* record lists and the dataset dict, locals of the DataProcessor's run,
\* are gone with it.
E2EAfterData ==
  /\ pc = "e2e_after_data"
  /\ dataset_path' = result
  /\ result' = NoPath
  /\ processed_data' = <<>>
  /\ augmented_data' = <<>>
  /\ dataset' = NoDataset
  /\ E2EHalf("Data processing completed")
  /\ UNCHANGED <<batchVars, unitVars, entry, cfg, remote, localfs, blobs, exc, stage,
                 stagesRun, raisedBy, audio_files, i, futures, epoch, best_val_loss,
                 patience_counter, checkpoint, val_history>>

E2EAfterTraining ==
  /\ pc = "e2e_after_training"
  /\ UpdateStatus(Parent, StatusData("running", Frac(9, 10), "Model training completed", ""))
  /\ pc' = "e2e_complete"
  /\ UNCHANGED <<trainVars, batchVars, unitVars, entry, cfg, pid, remote, localfs, blobs,
                 exc, stage, stagesRun, raisedBy, audio_files, i, futures,
                 processed_data, augmented_data, dataset, result>>

E2EComplete ==
  /\ pc = "e2e_complete"
  /\ UpdateStatusWith(Parent, StatusData("completed", Frac(1, 1),
                                         "Complete pipeline finished successfully", ""),
                      Dict({<<"dataset_path", dataset_path>>,
                            <<"model_gcs_path", ModelBlob(TrainingId)>>,
                            <<"vertex_model_name", VertexModel(TrainingId)>>}))
  /\ pc' = "done"
  /\ UNCHANGED <<trainVars, batchVars, unitVars, entry, cfg, pid, remote, localfs, blobs,
                 exc, stage, stagesRun, raisedBy, audio_files, i, futures,
                 processed_data, augmented_data, dataset, result>>

\* The script's except clause: a failed update of the parent, then "raise".
E2EExcept ==
  /\ pc = "e2e_except"
  /\ UpdateStatus(Parent, PipelineFailed(exc))
  /\ pc' = "done"
  /\ UNCHANGED <<trainVars, batchVars, unitVars, entry, cfg, pid, remote, localfs, blobs,
                 exc, stage, stagesRun, raisedBy, audio_files, i, futures,
                 processed_data, augmented_data, dataset, result>>

E2ENext ==
  \/ E2EStart \/ E2ESkipped \/ E2EAfterData \/ E2EAfterTraining
  \/ E2EComplete \/ E2EExcept

E2EBuckets == {b \in Buckets : Len(b) <= MaxE2EFiles}

InitE2E ==
  /\ entry = "e2e"
  /\ pc = "e2e_start"
  /\ pid = Parent
  /\ \/ /\ cfg \in {Config(aug, c.epochs, c.patience, FALSE, NoPath) :
                      aug \in BOOLEAN, c \in TrainConfigs}
        /\ remote \in E2EBuckets
        /\ blobs = {}
     \/ /\ cfg \in {Config(TRUE, c.epochs, c.patience, TRUE, path) :
                      c \in TrainConfigs, path \in {NoPath, OldDataset}}
        /\ remote = <<>>
        /\ blobs \in {{}, {OldDataset}}
  /\ InitCommon
  /\ dataset_path = NoPath
  /\ InitNoBatch

\* ------------------------------------------------------------ the system
Init == InitData \/ InitTrain \/ InitE2E

Next == DataNext \/ TrainNext \/ E2ENext

Spec == Init /\ [][Next]_vars

\* --------------------------------- UniversalAudioProcessor
\* A status string is the sequence of its words; "x in status" is the
\* search for a contiguous run of words.
Contains(status, pat) ==
  \E k \in 0..(Len(status) - Len(pat)) : SubSeq(status, k + 1, k + Len(pat)) = pat

TooShort == <<"too", "short">>
TooLong == <<"too", "long">>
TranscriptTooShort == <<"transcript", "too", "short">>
LanguageFiltered == <<"language", "filtered">>
Ok == <<>>

\* StatsTracker.update(key, value): the counter grows by value.
StatsUpdate(st, key, value) == [st EXCEPT ![key] = @ + value]

\* _update_skip_stats: the first branch whose words occur in the status.
UpdateSkipStats(st, status) ==
  IF Contains(status, TooShort) THEN StatsUpdate(st, "skipped_too_short", 1)
  ELSE IF Contains(status, TooLong) THEN StatsUpdate(st, "skipped_too_long", 1)
  ELSE IF Contains(status, TranscriptTooShort) THEN StatsUpdate(st, "skipped_bad_transcript", 1)
  ELSE IF Contains(status, LanguageFiltered) THEN StatsUpdate(st, "skipped_language_filter", 1)
  ELSE st

\* What the collaborators do with one audio file: the status preprocess
\* answers (Ok: audio), the status transcribe answers (Ok: a transcript),
\* the VAD data ("full" or "none"), whether a call raises before the result
\* is marked a success, and the duration.
FileOutcome(pre, tr, vad, raises, seconds) ==
  [pre |-> pre, tr |-> tr, vad |-> vad, raises |-> raises, seconds |-> seconds]

FileOutcomes ==
  { FileOutcome(Ok, Ok, "full", FALSE, 2),
    FileOutcome(Ok, Ok, "none", FALSE, 2),
    FileOutcome(Ok, Ok, "full", TRUE, 2),
    FileOutcome(TooShort, Ok, "full", FALSE, 0),
    FileOutcome(TooLong, Ok, "full", FALSE, 40),
    FileOutcome(Ok, TranscriptTooShort, "full", FALSE, 2),
    FileOutcome(Ok, LanguageFiltered, "full", FALSE, 2) }

FileResult(status, error) == [status |-> status, error |-> error]

\* process_single_file: <<result, stats afterwards>>.
process_single_file(f, st) ==
  IF f.pre # Ok THEN <<FileResult("failed", f.pre), UpdateSkipStats(st, f.pre)>>
  ELSE LET st1 == StatsUpdate(st, "total_duration", f.seconds)
       IN IF f.tr # Ok THEN <<FileResult("failed", f.tr), UpdateSkipStats(st1, f.tr)>>
          ELSE IF f.raises THEN <<FileResult("failed", <<"unexpected", "error">>), st1>>
          ELSE <<FileResult("success", Ok),
                 StatsUpdate(StatsUpdate(st1, "processed_files", 1),
                             "processed_duration", f.seconds)>>

IsSuccess(r) == r.status = "success"

\* process_dataset on the files found: nothing to do on an empty list.
BatchBegin ==
  /\ pc = "batch"
  /\ i' = 0
  /\ b_results' = <<>>
  /\ pc' = IF b_files = <<>> THEN "done" ELSE "batch_loop"
  /\ UNCHANGED <<trainVars, unitVars, entry, cfg, pid, remote, localfs, blobs, updates,
                 store, store_up, exc, stage, stagesRun, raisedBy, audio_files,
                 futures, processed_data, augmented_data, dataset, result,
                 b_files, stats, b_returned>>

\* One iteration of the loop over audio_files.
BatchStep ==
  /\ pc = "batch_loop"
  /\ i < Len(b_files)
  /\ LET st0 == StatsUpdate(stats, "total_files", 1)
         out == process_single_file(b_files[i + 1], st0)
     IN /\ b_results' = Append(b_results, out[1])
        /\ stats' = IF ~IsSuccess(out[1])
                      THEN StatsUpdate(out[2], "failed_files", 1)
                      ELSE out[2]
  /\ i' = i + 1
  /\ UNCHANGED <<trainVars, unitVars, entry, cfg, pc, pid, remote, localfs, blobs, updates,
                 store, store_up, exc, stage, stagesRun, raisedBy, audio_files,
                 futures, processed_data, augmented_data, dataset, result,
                 b_files, b_returned>>

\* The results are saved and the successful ones returned.
BatchReturn ==
  /\ pc = "batch_loop"
  /\ i = Len(b_files)
  /\ b_returned' = SelectSeq(b_results, IsSuccess)
  /\ pc' = "done"
  /\ UNCHANGED <<trainVars, unitVars, entry, cfg, pid, remote, localfs, blobs, updates,
                 store, store_up, exc, stage, stagesRun, raisedBy, audio_files,
                 i, futures, processed_data, augmented_data, dataset, result,
                 b_files, b_results, stats>>

RECURSIVE SeqsUpTo(_, _)
SeqsUpTo(S, n) ==
  IF n = 0 THEN {<<>>}
  ELSE LET shorter == SeqsUpTo(S, n - 1)
       IN shorter \cup {Append(q, x) : q \in shorter, x \in S}

InitBatch ==
  /\ entry = "batch"
  /\ cfg = Config(TRUE, 1, 1, FALSE, NoPath)
  /\ pc = "batch"
  /\ pid = "p"
  /\ remote = <<>>
  /\ blobs = {}
  /\ InitCommon
  /\ store_up = TRUE
  /\ dataset_path = NoPath
  /\ b_files \in SeqsUpTo(FileOutcomes, MaxBatch)
  /\ b_results = <<>>
  /\ stats = NoStats
  /\ b_returned = <<>>

BatchNext == BatchBegin \/ BatchStep \/ BatchReturn

SpecBatch == InitBatch /\ [][BatchNext]_vars

\* ------------------------------------------- a client of PipelineStatus
\* update_status with arguments a caller may pass.
ClientUpdate ==
  /\ pc = "client"
  /\ timestamp_now <= MaxCalls
  /\ \E id \in {"p", "p-data"}, status \in {"running", "failed"},
        metadata \in {NoMetadata, Dict({<<"k", "v">>})} :
       UpdateStatusWith(id, StatusData(status, Frac(1, 2), "message", ""), metadata)
  /\ UNCHANGED <<trainVars, batchVars, unitVars, entry, cfg, pc, pid, remote, localfs,
                 blobs, exc, stage, stagesRun, raisedBy, audio_files, i, futures,
                 processed_data, augmented_data, dataset, result>>

\* get_status(id): the download succeeds when the bucket answers and holds
\* a blob for id; "at" notes the clock at the call.
ClientGet ==
  /\ pc = "client"
  /\ \E id \in {"p", "p-data"} :
       got' = [id |-> id,
               status_data |-> get_status(store, id,
                                          store_up /\ store[id].status # "none"),
               at |-> timestamp_now]
  /\ UNCHANGED <<trainVars, batchVars, fit, writers, entry, cfg, pc, pid, remote, localfs,
                 blobs, updates, store, exc, stage, stagesRun, raisedBy,
                 audio_files, i, futures, processed_data, augmented_data,
                 dataset, result>>

InitStatus ==
  /\ entry = "status"
  /\ cfg = Config(TRUE, 1, 1, FALSE, NoPath)
  /\ pc = "client"
  /\ pid = "p"
  /\ remote = <<>>
  /\ blobs = {}
  /\ InitCommon
  /\ dataset_path = NoPath
  /\ InitNoBatch

StatusNext == ClientUpdate \/ ClientGet

SpecStatus == InitStatus /\ [][StatusNext]_vars

\* ----------------- PipelineStatus.update_status, two pipelines at once
\* The three file operations of one call, each a step of its own so that
\* the calls of the two pipelines interleave.
\* "with open(status_file, 'w') as f: json.dump(status_data, f)"
WriterDump(w) ==
  /\ pc = "writers"
  /\ writers.at[w] = "idle"
  /\ timestamp_now <= MaxCalls
  /\ \E status \in {"running", "completed"} :
       LET status_data == StatusRecord(StatusData(status, Frac(1, 2), w, ""),
                                       NoMetadata, timestamp_now)
       IN /\ updates' = LogUpdate(updates, WriterId(w), status_data)
          /\ writers' = [writers EXCEPT
                           !.at[w] = "dumped",
                           !.files[StatusFile(WriterId(w))] = status_data]
  /\ UNCHANGED <<trainVars, batchVars, got, fit, entry, cfg, pc, pid, remote,
                 localfs, blobs, store, exc, stage, stagesRun, raisedBy,
                 audio_files, i, futures, processed_data, augmented_data,
                 dataset, result>>

\* "upload_file(self.status_bucket, status_file, blob_name)": the blob gets
\* what the temp file holds now; a failing upload ends the call (False).
WriterUpload(w) ==
  /\ pc = "writers"
  /\ writers.at[w] = "dumped"
  /\ LET file == writers.files[StatusFile(WriterId(w))]
         ok == store_up /\ file.status # "none"
     IN /\ store' = PutStatus(store, WriterId(w), file, ok)
        /\ writers' = [writers EXCEPT !.at[w] = IF ok THEN "uploaded" ELSE "idle"]
  /\ UNCHANGED <<trainVars, batchVars, got, fit, entry, cfg, pc, pid, remote,
                 localfs, blobs, updates, exc, stage, stagesRun, raisedBy,
                 audio_files, i, futures, processed_data, augmented_data,
                 dataset, result>>

\* "os.remove(status_file)", then the return (False when the file is gone).
WriterRemove(w) ==
  /\ pc = "writers"
  /\ writers.at[w] = "uploaded"
  /\ writers' = [writers EXCEPT !.at[w] = "idle",
                                !.files[StatusFile(WriterId(w))] = NoRecord]
  /\ UNCHANGED <<trainVars, batchVars, got, fit, entry, cfg, pc, pid, remote,
                 localfs, blobs, updates, store, exc, stage, stagesRun,
                 raisedBy, audio_files, i, futures, processed_data,
                 augmented_data, dataset, result>>

InitWriters ==
  /\ entry = "writers"
  /\ cfg = Config(TRUE, 1, 1, FALSE, NoPath)
  /\ pc = "writers"
  /\ pid = "p"
  /\ remote = <<>>
  /\ blobs = {}
  /\ InitCommon
  /\ dataset_path = NoPath
  /\ InitNoBatch

WritersNext == \E w \in Writers : WriterDump(w) \/ WriterUpload(w) \/ WriterRemove(w)

\* A data pipeline with its pool of workers, or two pipelines that update
\* their status at the same time.
SpecWriters == (InitData \/ InitWriters) /\ [][DataNext \/ WritersNext]_vars

\* ------------------------------- AudioPreprocessor.trim_or_pad_audio
\* The target_length argument: None, or an integer.
NoTarget == [given |-> FALSE, value |-> 0]
Target(v) == [given |-> TRUE, value |-> v]

\* A variant of trim_or_pad_samples that pads short audio and never trims.
pad_samples_only(audio, target_length) ==
  LET target == IF target_length.given THEN target_length.value ELSE TargetLength
  IN [samples |-> audio,
      zeros |-> IF Len(audio) < target THEN target - Len(audio) ELSE 0]

\* trim_or_pad_audio on the samples themselves. The result is written as
\* the samples kept followed by a count of appended zeros:
\* audio[:target_length], or np.pad(audio, (0, padding)).
trim_or_pad_samples(audio, target_length) ==
  LET target == IF target_length.given THEN target_length.value ELSE TargetLength
  IN IF Len(audio) > target
       THEN [samples |-> SubSeq(audio, 1, target), zeros |-> 0]
     ELSE IF Len(audio) < target
       THEN [samples |-> audio, zeros |-> target - Len(audio)]
     ELSE [samples |-> audio, zeros |-> 0]

\* A caller passes some audio and some target length, or none.
FitCall ==
  /\ pc = "fit"
  /\ \E audio \in SeqsUpTo({0, 1}, MaxAudio),
        target_length \in {NoTarget} \cup {Target(v) : v \in 0..MaxTarget} :
       fit' = [audio |-> audio, target_length |-> target_length,
               result |-> trim_or_pad_samples(audio, target_length)]
  /\ UNCHANGED <<trainVars, batchVars, got, writers, entry, cfg, pc, pid, remote, localfs,
                 blobs, updates, store, exc, stage, stagesRun, raisedBy,
                 audio_files, i, futures, processed_data, augmented_data,
                 dataset, result>>

InitFit ==
  /\ entry = "fit"
  /\ cfg = Config(TRUE, 1, 1, FALSE, NoPath)
  /\ pc = "fit"
  /\ pid = "p"
  /\ remote = <<>>
  /\ blobs = {}
  /\ InitCommon
  /\ store_up = TRUE
  /\ dataset_path = NoPath
  /\ InitNoBatch

FitNext == FitCall

SpecFit == InitFit /\ [][FitNext]_vars

\* ================================================================ claims
Last(q) == q[Len(q)]
\* The pipeline ids DataProcessor and ModelTrainer run under.
DataRunId == IF entry = "e2e" THEN DataId ELSE "p"
TrainRunId == IF entry = "e2e" THEN TrainingId ELSE "p"
RunIds == IF entry = "e2e" THEN {DataId, TrainingId} ELSE {"p"}
Exited == pc \in {"done", "e2e_except"}
HandlerPositions == {"stage_except", "orch_except", "train_except",
                     "train_orch_except", "e2e_except", "done"}

\* C1: in the updates of one pipeline_id, every update's progress is at
\* least the progress of the update before it, also in runs where a stage
\* raises.
C1_ProgressNonDecreasing ==
  \A id \in RunIds : \A k \in 1..(Len(updates[id]) - 1) :
    Leq(updates[id][k].progress, updates[id][k + 1].progress)

\* C2: once an update with status completed, failed or cancelled has been
\* made for a pipeline_id, no later update for that id is made.
C2_TerminalIsLast ==
  \A id \in RunIds : \A k \in 1..(Len(updates[id]) - 1) :
    updates[id][k].status \notin Terminal

\* C3: when a stage raises, no later stage executes, control stays in the
\* except clauses, and when the pipeline method is left the last update of
\* its pipeline_id is "failed" with the error text, the error still
\* propagating and nothing returned.
C3_StageFailureRecordedAndReraised ==
  raisedBy # None =>
    /\ Last(stagesRun) = raisedBy
    /\ pc \in HandlerPositions
    /\ exc # None
    /\ Exited =>
         /\ Last(updates[pid]).status = "failed"
         /\ Last(updates[pid]).err = exc
         /\ store_up => store[pid] = Last(updates[pid])
         /\ result = NoPath

C3_Witness ==
  /\ raisedBy = "save"
  /\ pc = "done"
  /\ Len(stagesRun) = 5

\* C4: what process_audio_files returns holds exactly one record for each
\* input path whose file is neither duration-skipped nor failed: its size
\* is the input size minus skips minus failures, between 0 and N.
DurationSkipped(c) == c.decodable /\ ~validate_audio_duration(c.samples)
HardFailed(c) == ~c.decodable \/ (validate_audio_duration(c.samples) /\ ~c.extractable)
InputsWhere(P(_)) == {k \in 1..Len(audio_files) : P(localfs[audio_files[k]])}
Usable(c) == ~DurationSkipped(c) /\ ~HardFailed(c)
RecordsOf(path) == {k \in 1..Len(processed_data) : processed_data[k].file_path = path}
C4_OneRecordPerUsableFile ==
  pc = "augment" =>
    /\ Len(processed_data) = Len(audio_files)
                             - Cardinality(InputsWhere(DurationSkipped))
                             - Cardinality(InputsWhere(HardFailed))
    /\ Len(processed_data) \in 0..Len(audio_files)
    /\ \A path \in LocalPaths :
         Cardinality(RecordsOf(path)) =
           Cardinality({k \in InputsWhere(Usable) : audio_files[k] = path})

C4_Witness ==
  /\ pc = "augment"
  /\ Len(audio_files) = 2
  /\ Len(processed_data) = 1
  /\ Cardinality(InputsWhere(HardFailed)) = 1

\* C5: after process_dataset, processed_files + the four skip counters +
\* failed_files equals total_files, and the number of returned records
\* equals processed_files.
SkipCount ==
  stats["skipped_too_short"] + stats["skipped_too_long"]
  + stats["skipped_bad_transcript"] + stats["skipped_language_filter"]
C5_AccountingIdentity ==
  (entry = "batch" /\ pc = "done") =>
    /\ stats["processed_files"] + SkipCount + stats["failed_files"] = stats["total_files"]
    /\ Len(b_returned) = stats["processed_files"]

\* C6: a worker's call of process_audio_file answers None only when the
\* duration validation fails; a load or extraction failure reaches the
\* caller as an error.
C6_NoneOnlyForDurationSkip ==
  \A k \in 1..Len(futures) :
    futures[k].state \in {"done", "collected"} =>
      LET c == localfs[audio_files[k]]
      IN /\ futures[k].out.kind = "none" => DurationSkipped(c)
         /\ HardFailed(c) => futures[k].out.kind = "raised"

\* C7: no failure while producing an augmentation variant raises out of
\* augment_data or causes a failed update.
C7_AugmentationNeverFails ==
  /\ raisedBy # "augment"
  /\ \A id \in RunIds : \A k \in 1..Len(updates[id]) :
       updates[id][k].text # "Failed to augment data"

\* C8: every record prepare_dataset is given has the same sample count,
\* frame count and feature vector length.
C8_EqualVectorLengths ==
  pc = "assemble" =>
    \A a \in 1..Len(augmented_data), b \in 1..Len(augmented_data) :
      /\ augmented_data[a].audio_data.samples = augmented_data[b].audio_data.samples
      /\ augmented_data[a].frames = augmented_data[b].frames
      /\ VectorLength(augmented_data[a]) = VectorLength(augmented_data[b])

\* C9: when prepare_dataset fails, no completed update is made for the data
\* pipeline's id, no dataset artifact is uploaded, training is never
\* started, no model artifact is produced, and the run ends with a failed
\* update.
Started(st) == \E k \in 1..Len(stagesRun) : stagesRun[k] = st
C9_AssemblyFailureHalts ==
  raisedBy = "assemble" =>
    /\ \A k \in 1..Len(updates[DataRunId]) : updates[DataRunId][k].status # "completed"
    /\ DatasetBlob(DataRunId) \notin blobs
    /\ \A st \in TrainStages : ~Started(st)
    /\ \A id \in Ids : ModelBlob(id) \notin blobs /\ VertexModel(id) \notin blobs
    /\ pc = "done" =>
         /\ Last(updates[DataRunId]).status = "failed"
         /\ Last(updates[DataRunId]).err = exc
         /\ entry = "e2e" => Last(updates[Parent]).status = "failed"

C9_Witness ==
  /\ raisedBy = "assemble"
  /\ entry = "e2e"
  /\ pc = "done"
  /\ exc = "ValueError: empty train set"

\* C10: with augmentation enabled, augment_data returns 4n records: for
\* each input record, in order, the record itself (not flagged) and three
\* variants flagged augmented, suffixed _aug_0, _aug_1, _aug_2, each with
\* features computed from its own audio (noise, time-stretch at 1.1,
\* pitch-shift; a transform that fails leaves the audio as it was).
VariantOk(v, orig, j) ==
  /\ v.augmented
  /\ v.file_path = orig.file_path
  /\ v.suffix = AugSuffix(j)
  /\ v.duration = orig.duration
  /\ v.features_of = v.audio_data
  /\ v.frames = Frames(v.audio_data.samples)
  /\ CASE j = 0 -> v.audio_data = Audio(orig.audio_data.samples, "noise")
       [] j = 1 -> v.audio_data \in
                     {Audio(RoundDiv(orig.audio_data.samples * 10, 11), "stretch"),
                      orig.audio_data}
       [] OTHER -> v.audio_data \in
                     {Audio(orig.audio_data.samples, "pitch"), orig.audio_data}
C10_FourRecordsPerInput ==
  (cfg.augmentation_enabled /\ pc = "assemble") =>
    /\ Len(augmented_data) = 4 * Len(processed_data)
    /\ \A k \in 1..Len(processed_data) :
         LET orig == processed_data[k]
             base == 4 * (k - 1)
         IN /\ augmented_data[base + 1] = orig
            /\ ~orig.augmented /\ orig.suffix = "" /\ orig.audio_data.fx = "raw"
            /\ \A j \in 0..2 : VariantOk(augmented_data[base + 2 + j], orig, j)

C10_Witness ==
  /\ cfg.augmentation_enabled
  /\ pc = "assemble"
  /\ Len(processed_data) = 2
  /\ augmented_data[3].audio_data.fx = "stretch"
  /\ augmented_data[8].audio_data.fx = "raw"

\* C11: with augmentation disabled, the step that runs augment_data hands
\* the input list on as it is (same length, same records, none flagged
\* augmented), writes no status update and leaves the status blobs alone.
C11_DisabledAugmentationIsPassThrough ==
  [][(pc = "augment" /\ ~cfg.augmentation_enabled) =>
       /\ pc' = "assemble"
       /\ augmented_data' = processed_data
       /\ processed_data' = processed_data
       /\ \A k \in 1..Len(augmented_data') : ~augmented_data'[k].augmented
       /\ updates' = updates
       /\ store' = store
       /\ exc' = exc]_vars

C11_Witness ==
  /\ ~cfg.augmentation_enabled
  /\ pc = "assemble"
  /\ Len(processed_data) = 2
  /\ augmented_data = processed_data

\* C12: a dataset prepare_dataset returned has as many feature rows as
\* labels as metadata entries in each split, every input record is in
\* exactly one split, each metadata entry is that of its row's record, and
\* dataset_stats counts training + validation = total = input records.
C12_SplitsPartitionTheRecords ==
  pc \in {"save", "complete"} =>
    LET n == Len(augmented_data)
        d == dataset
    IN /\ Len(d.X_train) = Len(d.y_train) /\ Len(d.y_train) = Len(d.metadata_train)
       /\ Len(d.X_val) = Len(d.y_val) /\ Len(d.y_val) = Len(d.metadata_val)
       /\ \A k \in 1..n :
            Cardinality({j \in 1..Len(d.X_train) : d.X_train[j] = k})
            + Cardinality({j \in 1..Len(d.X_val) : d.X_val[j] = k}) = 1
       /\ \A j \in 1..Len(d.X_train) :
            d.metadata_train[j] = MetadataOf(augmented_data[d.X_train[j]])
       /\ \A j \in 1..Len(d.X_val) :
            d.metadata_val[j] = MetadataOf(augmented_data[d.X_val[j]])
       /\ d.dataset_stats.training_samples = Len(d.X_train)
       /\ d.dataset_stats.validation_samples = Len(d.X_val)
       /\ d.dataset_stats.training_samples + d.dataset_stats.validation_samples
            = d.dataset_stats.total_samples
       /\ d.dataset_stats.total_samples = n

C12_Witness ==
  /\ pc = "save"
  /\ Len(augmented_data) = 8
  /\ dataset.X_val = <<3, 8>>

\* C13: two update_status calls in a row with identical arguments leave
\* the persisted record identical in every field to the record persisted
\* after the first of them.
SameArguments(a, b) ==
  /\ a.status = b.status /\ a.progress = b.progress /\ a.text = b.text
  /\ a.err = b.err /\ a.metadata = b.metadata
C13_UpdateStatusIdempotent ==
  \A id \in Ids : \A k \in 1..(Len(updates[id]) - 1) :
    ( /\ store_up
      /\ k + 1 = Len(updates[id])
      /\ updates[id][k + 1].timestamp = updates[id][k].timestamp + 1
      /\ SameArguments(updates[id][k], updates[id][k + 1]) )
    => store[id] = updates[id][k]

\* C14: the status store is a map from pipeline_id to the last record
\* written: when updates succeed the blob of each id is that id's latest
\* update, get_status(id) returns the latest update made for id before the
\* call, and it returns None when none was written for id.
LatestBefore(id, t) ==
  LET earlier == {k \in 1..Len(updates[id]) : updates[id][k].timestamp < t}
  IN IF earlier = {} THEN NoRecord
     ELSE updates[id][CHOOSE k \in earlier : \A j \in earlier : j <= k]
C14_StoreIsMapToLastRecord ==
  /\ store_up => \A id \in Ids : store[id] = LatestBefore(id, timestamp_now)
  /\ got.id # None =>
       /\ store_up => got.status_data = LatestBefore(got.id, got.at)
       /\ LatestBefore(got.id, got.at) = NoRecord => got.status_data = NoRecord

C14_Witness ==
  /\ entry = "status"
  /\ store_up
  /\ got.id = "p"
  /\ Len(updates["p"]) = 2
  /\ Len(updates["p-data"]) = 1
  /\ updates["p-data"][1].timestamp = 2
  /\ got.at = 4
  /\ got.status_data = updates["p"][2]
  /\ got.status_data # updates["p"][1]

\* C15: every status update made by the data, training and end-to-end
\* pipelines has a status among running, completed, failed, cancelled,
\* pending and a progress between 0.0 and 1.0 inclusive.
C15_StatusAndProgressInRange ==
  \A id \in Ids : \A k \in 1..Len(updates[id]) :
    /\ updates[id][k].status \in Statuses
    /\ Leq(Frac(0, 1), updates[id][k].progress)
    /\ Leq(updates[id][k].progress, Frac(1, 1))
    /\ updates[id][k].progress[2] > 0

C15_Witness ==
  /\ entry = "e2e"
  /\ pc = "done"
  /\ exc = None
  /\ Last(updates[Parent]).status = "completed"
  /\ \E k \in 1..Len(updates[TrainingId]) :
       /\ updates[TrainingId][k].status = "running"
       /\ Same(updates[TrainingId][k].progress, Frac(1, 1))
  /\ \E k \in 1..Len(updates[DataId]) :
       Same(updates[DataId][k].progress, Frac(17, 20))

\* C16: trim_or_pad_audio returns exactly target_length samples: the first
\* target_length samples of a longer input, a shorter input followed by
\* zeros, an input of that length unchanged; with no target given the
\* target is int(max_duration * sample_rate).
C16_FitLengthExact ==
  LET target == IF fit.target_length.given THEN fit.target_length.value
                ELSE max_duration * sample_rate
      n == Len(fit.audio)
      out == fit.result
  IN /\ Len(out.samples) + out.zeros = target
     /\ Len(out.samples) + out.zeros = trim_or_pad_audio(n, target)
     /\ n > target => out.zeros = 0 /\ out.samples = SubSeq(fit.audio, 1, target)
     /\ n < target => out.zeros = target - n /\ out.samples = fit.audio
     /\ n = target => out.zeros = 0 /\ out.samples = fit.audio

C16_Witness ==
  /\ fit.audio = <<1, 0, 1, 1>>
  /\ fit.target_length = Target(2)
  /\ fit.result = [samples |-> <<1, 0>>, zeros |-> 0]

\* C17: in a run where a stage raised, exactly one update with status
\* failed is made for the pipeline_id, and the orchestrator's handler
\* makes it.
FailedUpdates(id) == {k \in 1..Len(updates[id]) : updates[id][k].status = "failed"}
C17_OrchestratorAloneWritesFailed ==
  (raisedBy # None /\ Exited) =>
    /\ Cardinality(FailedUpdates(pid)) = 1
    /\ \A k \in FailedUpdates(pid) :
         updates[pid][k].text \in {"Pipeline failed", "Training failed"}

\* C18: in process_audio_files over N files, the update after the k-th
\* completed file reports 0.3 + (k / N) * 0.4, so the last one reports 0.7.
ExtractUpdates == {k \in 1..Len(updates[pid]) : updates[pid][k].text = "Processed files"}
C18_ExtractionProgressCountsCompleted ==
  /\ \A k \in ExtractUpdates :
       LET done == Cardinality({j \in ExtractUpdates : j <= k})
       IN Same(updates[pid][k].progress,
               Frac(3 * Len(audio_files) + 4 * done, 10 * Len(audio_files)))
  /\ (pc = "augment" /\ Len(audio_files) > 0) =>
       Same(Last(updates[pid]).progress, Frac(7, 10))

\* The updates of log from position from on hold the progress values cps,
\* from the c-th on, in that order.
RECURSIVE InOrder(_, _, _, _)
InOrder(log, from, cps, c) ==
  IF c > Len(cps) THEN TRUE
  ELSE \E k \in from..Len(log) :
         /\ Same(log[k].progress, cps[c])
         /\ InOrder(log, k + 1, cps, c + 1)
DataSucceeded ==
  /\ entry \in {"data", "e2e"}
  /\ \E k \in 1..Len(updates[DataRunId]) : updates[DataRunId][k].status = "completed"

\* C19 (as stated): every successful run of the data pipeline, whatever
\* the configuration, writes updates with progress 0.1, 0.3, 0.7, 0.85,
\* 0.95 and 1.0, in that order.
C19_AllCheckpointsAlways ==
  DataSucceeded =>
    InOrder(updates[DataRunId], 1,
            <<Frac(1, 10), Frac(3, 10), Frac(7, 10), Frac(17, 20), Frac(19, 20), Frac(1, 1)>>, 1)

\* C19 (amended): every successful run of the data pipeline writes updates
\* with progress 0.1, 0.3, 0.85, 0.95 and 1.0 in that order; with
\* augmentation enabled 0.7 is written between 0.3 and 0.85, and with
\* augmentation disabled no update with progress 0.7 is written at all.
C19_CheckpointsPerConfiguration ==
  DataSucceeded =>
    /\ InOrder(updates[DataRunId], 1,
               <<Frac(1, 10), Frac(3, 10), Frac(17, 20), Frac(19, 20), Frac(1, 1)>>, 1)
    /\ cfg.augmentation_enabled =>
         InOrder(updates[DataRunId], 1,
                 <<Frac(1, 10), Frac(3, 10), Frac(7, 10), Frac(17, 20), Frac(19, 20),
                   Frac(1, 1)>>, 1)
    /\ ~cfg.augmentation_enabled =>
         \A k \in 1..Len(updates[DataRunId]) :
           ~Same(updates[DataRunId][k].progress, Frac(7, 10))

C19_Witness ==
  /\ entry = "data"
  /\ pc = "done"
  /\ ~cfg.augmentation_enabled
  /\ Last(updates["p"]).status = "completed"
  /\ Len(audio_files) = 2

\* C20: at most max_workers per-file tasks execute at once, and
\* process_audio_files returns only when every submitted task has
\* finished: while augmentation, assembly, saving or any later step runs,
\* no task is queued, running or waiting to be collected.
C20_OnlyExtractionIsConcurrent ==
  /\ Cardinality(Running) <= max_workers
  /\ pc # "collect" =>
       \A k \in 1..Len(futures) : futures[k].state = "collected"
  /\ (Len(stagesRun) > 0 /\ Last(stagesRun) \in {"augment", "assemble", "save"}) =>
       Running = {} /\ Queued = {}

C20_Witness ==
  /\ pc = "collect"
  /\ Cardinality(Running) = max_workers
  /\ Cardinality(Queued) = 2

\* The record process_audio_file returns for input k of audio_files.
OutcomeOf(k) == process_audio_file(audio_files[k], localfs[audio_files[k]])

\* C21: the result of process_audio_files does not depend on the order in
\* which the workers complete: when the loop is over, processed_data holds,
\* with the same multiplicity, exactly the records process_audio_file returns
\* for the usable inputs, and the progress values written during extraction
\* are 0.3 + (k / n) * 0.4 for k = 0 .. n - 1 in that order, whatever the
\* interleaving was.
C21_ResultIndependentOfCompletionOrder ==
  pc = "augment" =>
    LET n == Len(audio_files)
        written == SelectSeq(updates[pid], LAMBDA u : u.text = "Processed files")
    IN /\ Len(processed_data) = Cardinality(InputsWhere(Usable))
       /\ \A k \in 1..Len(processed_data) :
            Cardinality({j \in 1..Len(processed_data) :
                           processed_data[j] = processed_data[k]}) =
            Cardinality({j \in InputsWhere(Usable) :
                           OutcomeOf(j).rec = processed_data[k]})
       /\ Len(written) = n
       /\ \A k \in 1..n :
            /\ Same(written[k].progress, ExtractProgress(k - 1, n))
            /\ written[k].status = "running"

\* Two usable files whose records were collected in the reverse of the
\* order in which they were submitted.
C21_Witness ==
  /\ pc = "augment"
  /\ Len(audio_files) = 2
  /\ Len(processed_data) = 2
  /\ audio_files[1] # audio_files[2]
  /\ processed_data[1].file_path = audio_files[2]
  /\ processed_data[2].file_path = audio_files[1]

\* C22: every status record has a single writer. The pool's workers never
\* call update_status (their steps leave the log of calls and the store
\* alone), a step of the coordinating thread issues the calls of one
\* pipeline_id only, a blob is only ever overwritten with a record of a call
\* made for its own pipeline_id, and two pipelines with different ids that
\* update at the same time never touch each other's record.
C22_SingleWriterPerRecord ==
  /\ [][/\ (WorkerStart \/ WorkerFinish) => UNCHANGED <<updates, store>>
        /\ Cardinality({id \in Ids : updates'[id] # updates[id]}) <= 1
        /\ \A id \in Ids :
             store'[id] # store[id] =>
               \E k \in 1..Len(updates'[id]) : updates'[id][k] = store'[id]]_vars
  /\ [](entry = "writers" =>
          \A w \in Writers :
            /\ \A k \in 1..Len(updates[WriterId(w)]) :
                 updates[WriterId(w)][k].text = w
            /\ store[WriterId(w)].status # "none" => store[WriterId(w)].text = w)

\* Both pipelines are between the write of their temp file and its upload,
\* and the first has a record in the store from an earlier call.
C22_Witness ==
  /\ entry = "writers"
  /\ writers.at["A"] = "dumped"
  /\ writers.at["B"] = "dumped"
  /\ store["p"].status # "none"
  /\ store["p-data"].status = "none"

\* The epochs (positions of val_history) whose validation loss is a number,
\* and the earliest of those with the least loss.
NumericEpochs == {k \in 1..Len(val_history) : val_history[k].kind = "num"}
EarliestBest ==
  CHOOSE k \in NumericEpochs :
    \A j \in NumericEpochs :
      \/ val_history[k].v < val_history[j].v
      \/ val_history[k].v = val_history[j].v /\ k <= j

BatchFilesWhere(P(_)) == {k \in 1..Len(b_results) : P(b_files[k])}

\* C24: every skip is counted under its own reason and under no other: the
\* too-short files in skipped_too_short, the too-long files in
\* skipped_too_long, the files whose transcript is too short in
\* skipped_bad_transcript and the language-filtered files in
\* skipped_language_filter; and a skip never aborts the batch, so every file
\* gone through has its result.
C24_SkipCountedUnderItsReason ==
  entry = "batch" =>
    /\ stats["skipped_too_short"] =
         Cardinality(BatchFilesWhere(LAMBDA f : f.pre = TooShort))
    /\ stats["skipped_too_long"] =
         Cardinality(BatchFilesWhere(LAMBDA f : f.pre = TooLong))
    /\ stats["skipped_bad_transcript"] =
         Cardinality(BatchFilesWhere(LAMBDA f : f.pre = Ok /\ f.tr = TranscriptTooShort))
    /\ stats["skipped_language_filter"] =
         Cardinality(BatchFilesWhere(LAMBDA f : f.pre = Ok /\ f.tr = LanguageFiltered))
    /\ pc = "done" => Len(b_results) = Len(b_files)

\* Epoch k of val_history improved on every loss before it, and the number
\* of epochs after the last improving one among the first m.
ImprovedAt(k) ==
  /\ val_history[k].kind = "num"
  /\ \A j \in 1..(k - 1) :
       val_history[j].kind = "num" => val_history[k].v < val_history[j].v
NotImprovedRun(m) ==
  LET S == {0} \cup {k \in 1..m : ImprovedAt(k)}
  IN m - (CHOOSE x \in S : \A y \in S : y <= x)

\* C25: the training loop runs at most the configured number of epochs and
\* stops right after the first epoch at which the count of consecutive
\* non-improving epochs reaches patience; an improving epoch resets that
\* count to 0; and the loop always terminates.
C25_EarlyStopping ==
  /\ [](pc \in {"epoch_loop", "load_best"} =>
          LET n == Len(val_history)
          IN /\ n <= cfg.epochs
             /\ patience_counter = NotImprovedRun(n)
             /\ \A m \in 1..(n - 1) : NotImprovedRun(m) < cfg.patience
             /\ pc = "epoch_loop" =>
                  /\ i = n
                  /\ n > 0 => NotImprovedRun(n) < cfg.patience
             /\ pc = "load_best" =>
                  \/ n = cfg.epochs
                  \/ NotImprovedRun(n) >= cfg.patience)
  /\ (pc = "epoch_loop") ~> (pc # "epoch_loop")

\* The loop stopped after the first of two configured epochs.
C25_Witness ==
  /\ pc = "load_best"
  /\ cfg.epochs = 2
  /\ Len(val_history) = 1
  /\ patience_counter = 1

\* C26: whenever train_model reaches the step that loads the best
\* checkpoint, a checkpoint was saved earlier in the same run, and the epoch
\* variable the final evaluation reads is bound, for every configured epoch
\* count and every sequence of validation losses.
C26_CheckpointSavedBeforeLoad ==
  pc = "load_best" =>
    /\ checkpoint.saved
    /\ epoch # -1

\* C27: a status record whose progress is 1.0 always has status completed:
\* no running and no failed record carries progress 1.0, in data runs,
\* training runs and end-to-end runs.
C27_FullProgressOnlyWhenCompleted ==
  \A id \in Ids :
    \A k \in 1..Len(updates[id]) :
      Same(updates[id][k].progress, Frac(1, 1)) => updates[id][k].status = "completed"

\* The stages the run is configured to execute, in order, and the path the
\* run returns when none of them raises.
StageOrder ==
  LET data == <<"download", "extract", "augment", "assemble", "save">>
      train == <<"load", "train", "save_model", "register">>
  IN IF entry = "data" THEN data
     ELSE IF entry = "train" \/ cfg.skip_data_processing THEN train
     ELSE data \o train
ReturnedPath == IF entry = "data" THEN DatasetBlob("p") ELSE ModelBlob(TrainRunId)

C30_OneLocalFilePerRemoteObject ==
  (pc \in {"extract", "collect", "augment"} /\ stage \in {"download", "extract"}) =>
    /\ Len(audio_files) = Len(AudioObjects)
    /\ \A j, k \in 1..Len(audio_files) : audio_files[j] = audio_files[k] => j = k
    /\ \A k \in 1..Len(audio_files) : localfs[audio_files[k]] = AudioObjects[k].content

====
